---- MODULE Spec2Model ----
(***************************************************************************)
(* A model of check_proxies.py: main() loads the proxy list, runs          *)
(* ITERATIONS sweeps of run_iteration (one check_proxy task per list       *)
(* entry, outcomes collected in completion order and then merged into      *)
(* all_ok_proxies / bad_proxy_stats), and writes the three result files.   *)
(***************************************************************************)
EXTENDS Integers, Sequences, FiniteSets, TLC

\* ---------------------------------------------------------------- bounds
\* Lines of the proxy file, configured iteration count, probes of one run,
\* and lines of the proxy file in the runs checked for termination.
MaxLines == 3
MaxIterations == 2
MaxChecks == 4
MaxFairLines == 2

\* ------------------------------------------------------- Python values
\* A Python value as the code uses it: its type, the result of
\* `"ip" in value`, the value of value["ip"] and the text str(value) gives.
PyStr(text) == [type |-> "str", has_ip |-> FALSE, ip |-> "", repr |-> text]

\* str(value): a str whose text is the value's text.
Str(value) == [type |-> "str", has_ip |-> FALSE, ip |-> "", repr |-> value.repr]

\* str(e) of an exception: the text of its arguments.
StrExc(e) == PyStr(e.args)

\* datetime.now().strftime(...): the text of the clock reading; the empty
\* tuple stands for the empty string a new record starts with.
Strftime(t) == <<t>>

\* ------------------------------------------------------------ the world
Proxies == {"p1", "p2"}

\* Natural (lexicographic) order of the proxy strings.
ProxyRank(p) == CASE p = "p1" -> 1 [] p = "p2" -> 2

\* Lines a proxy file may hold, and str.strip() of each.
RawLines == {"\n", "p1\n", " p1 \n", "p2\n"}
strip(line) ==
    CASE line = "\n" -> ""
      [] line = "p1\n" -> "p1"
      [] line = " p1 \n" -> "p1"
      [] line = "p2\n" -> "p2"

\* Bodies response.json() may return: the echo of an IP, a JSON object
\* without the field, and a JSON array that contains the string "ip".
JsonBodies ==
    { [type |-> "dict", has_ip |-> TRUE, ip |-> "1.1.1.1", repr |-> "{'ip': '1.1.1.1'}"],
      [type |-> "dict", has_ip |-> TRUE, ip |-> "2.2.2.2", repr |-> "{'ip': '2.2.2.2'}"],
      [type |-> "dict", has_ip |-> FALSE, ip |-> "", repr |-> "{'error': 'denied'}"],
      [type |-> "list", has_ip |-> TRUE, ip |-> "", repr |-> "['ip']"] }

\* Exceptions session.get() / response.json() may raise.  asyncio's
\* TimeoutError is raised without arguments; UnicodeDecodeError comes from
\* decoding the body and is a ValueError.
Exceptions ==
    { [cls |-> "ClientError", args |-> "Cannot connect to host"],
      [cls |-> "TimeoutError", args |-> ""],
      [cls |-> "JSONDecodeError", args |-> "Expecting value"],
      [cls |-> "UnicodeDecodeError", args |-> "invalid start byte"] }

\* What the network does to one request.
NetEvents ==
    { [kind |-> "response", body |-> b, exc |-> [cls |-> "", args |-> ""]] : b \in JsonBodies }
    \cup
    { [kind |-> "raise", body |-> PyStr(""), exc |-> e] : e \in Exceptions }

\* --------------------------------------------------------------- dicts
\* A dict is the sequence of its items in insertion order.
Keys(d) == { d[j].k : j \in DOMAIN d }
Has(d, key) == key \in Keys(d)
Get(d, key) == d[CHOOSE j \in DOMAIN d : d[j].k = key].v
Put(d, key, val) ==
    IF Has(d, key)
    THEN [j \in DOMAIN d |-> IF d[j].k = key THEN [k |-> key, v |-> val] ELSE d[j]]
    ELSE Append(d, [k |-> key, v |-> val])

\* `x in list`
InList(x, list) == \E j \in DOMAIN list : list[j] = x

\* ------------------------------------------------------------ check_proxy
\* The classes named by check_proxy's except clause.
ExceptClasses == {"ClientError", "TimeoutError", "JSONDecodeError", "SSLError"}

\* check_proxy(proxy) under network event ev: the dict it returns, or the
\* exception that leaves it.
check_proxy(proxy, ev) ==
    IF ev.kind = "response"
    THEN [raised |-> FALSE, exc |-> ev.exc,
          result |-> [status |-> TRUE, message |-> ev.body, proxy |-> proxy]]
    ELSE IF ev.exc.cls \in ExceptClasses
    THEN [raised |-> FALSE, exc |-> ev.exc,
          result |-> [status |-> FALSE, message |-> StrExc(ev.exc), proxy |-> proxy]]
    ELSE [raised |-> TRUE, exc |-> ev.exc,
          result |-> [status |-> FALSE, message |-> PyStr(""), proxy |-> proxy]]

\* ---------------------------------------------------- run_iteration: merge
\* Mutant: the test looks at the status alone.
IsOkStatusOnly(result) == result.status

\* The test that sends a result to the OK branch.
IsOk(result) ==
    result.status /\ result.message.type = "dict" /\ result.message.has_ip

\* Mutant: only the IP observed last is kept for a proxy.
MergeOkSingle(ok, proxy, ip) == Put(ok, proxy, <<ip>>)

\* Mutant: the IP is appended without the membership test.
MergeOkAppendAlways(ok, proxy, ip) ==
    LET d1 == IF ~Has(ok, proxy) THEN Put(ok, proxy, <<>>) ELSE ok
    IN  Put(d1, proxy, Append(Get(d1, proxy), ip))

\* Mutant: a new IP replaces the list instead of joining it.
MergeOkReplace(ok, proxy, ip) ==
    LET d1 == IF ~Has(ok, proxy) THEN Put(ok, proxy, <<>>) ELSE ok
    IN  IF ~InList(ip, Get(d1, proxy)) THEN Put(d1, proxy, <<ip>>) ELSE d1

\* The OK branch: the observed IP joins the proxy's list unless already there.
MergeOk(ok, proxy, ip) ==
    LET d1 == IF ~Has(ok, proxy) THEN Put(ok, proxy, <<>>) ELSE ok
        ips == Get(d1, proxy)
    IN  IF ~InList(ip, ips) THEN Put(d1, proxy, Append(ips, ip)) ELSE d1

\* Mutant: fail_count is set to 1 instead of being incremented.
MergeBadSetOne(bad, proxy, err, t) ==
    Put(bad, proxy, [fail_count |-> 1, last_error |-> Str(err),
                     last_check |-> Strftime(t)])

\* Mutant: last_error is set only when the record is created.
MergeBadKeepFirst(bad, proxy, err, t) ==
    IF ~Has(bad, proxy)
    THEN Put(bad, proxy, [fail_count |-> 1, last_error |-> Str(err),
                          last_check |-> Strftime(t)])
    ELSE Put(bad, proxy, [fail_count |-> Get(bad, proxy).fail_count + 1,
                          last_error |-> Get(bad, proxy).last_error,
                          last_check |-> Strftime(t)])

\* The BAD branch: count the failure, overwrite the last error and time.
MergeBad(bad, proxy, err, t) ==
    LET d1 == IF ~Has(bad, proxy)
              THEN Put(bad, proxy,
                       [fail_count |-> 0, last_error |-> PyStr(""), last_check |-> <<>>])
              ELSE bad
        st == Get(d1, proxy)
    IN  Put(d1, proxy, [fail_count |-> st.fail_count + 1,
                        last_error |-> Str(err),
                        last_check |-> Strftime(t)])

\* Mutant: a success also drops the proxy's failure record.
MergeResultPurge(agg, result, t) ==
    IF IsOk(result)
    THEN [ok |-> MergeOk(agg.ok, result.proxy, result.message.ip),
          bad |-> SelectSeq(agg.bad, LAMBDA item : item.k # result.proxy),
          oks |-> agg.oks + 1, bads |-> agg.bads]
    ELSE [ok |-> agg.ok,
          bad |-> MergeBad(agg.bad, result.proxy, result.message, t),
          oks |-> agg.oks, bads |-> agg.bads + 1]

\* One pass of the `for result in results` body over the aggregate state.
MergeResult(agg, result, t) ==
    IF IsOk(result)
    THEN [ok |-> MergeOk(agg.ok, result.proxy, result.message.ip),
          bad |-> agg.bad, oks |-> agg.oks + 1, bads |-> agg.bads]
    ELSE [ok |-> agg.ok,
          bad |-> MergeBad(agg.bad, result.proxy, result.message, t),
          oks |-> agg.oks, bads |-> agg.bads + 1]

\* The whole loop over a list of results.
RECURSIVE MergeAll(_, _, _)
MergeAll(agg, rs, t) ==
    IF rs = <<>> THEN agg
    ELSE MergeAll(MergeResult(agg, Head(rs), t), Tail(rs), t)

\* Mutant: the loop stops at the first outcome.
AllCollectedFirst(rs, n) == Len(rs) >= 1

\* Mutant: the loop stops one outcome short.
AllCollectedButOne(rs, n) == Len(rs) >= n - 1

\* Mutant: the loop waits for one result more than there are tasks.
AllCollectedNever(rs, n) == Len(rs) = n + 1

\* The `as_completed` loop is over once it has yielded every task.
AllCollected(rs, n) == Len(rs) = n

\* What a division by zero gives instead of a number: ZeroDivisionError.
ZeroDivisionError == 0 - 1

\* round(n / d * 100): Python rounds halves to the even neighbour (the
\* float computation agrees with the exact one for every d below 40); a
\* zero d raises ZeroDivisionError.
Percent(n, d) ==
    IF d = 0 THEN ZeroDivisionError
    ELSE LET q == (100 * n) \div d
             r == (100 * n) % d
         IN  IF 2 * r < d THEN q
             ELSE IF 2 * r > d THEN q + 1
             ELSE IF q % 2 = 0 THEN q ELSE q + 1

\* --------------------------------------------------------- main: outputs
\* sorted(d.keys()) of a dict keyed by proxy strings.
RECURSIVE SortedKeys(_)
SortedKeys(ks) ==
    IF ks = {} THEN <<>>
    ELSE LET m == CHOOSE x \in ks : \A y \in ks : ProxyRank(x) <= ProxyRank(y)
         IN  <<m>> \o SortedKeys(ks \ {m})

\* Mutant: never_ok is bad_proxy_stats unfiltered.
NeverOkAll(bad, ok) == bad

\* Mutant: the filter is inverted.
NeverOkInverted(bad, ok) == SelectSeq(bad, LAMBDA item : Has(ok, item.k))

\* never_ok: the items of bad_proxy_stats whose key is not in all_ok_proxies,
\* in bad_proxy_stats' order.
NeverOk(bad, ok) == SelectSeq(bad, LAMBDA item : ~Has(ok, item.k))

\* Mutant: the items are written unsorted.
SortByFailsUnsorted(items) == items

\* sorted(items, key=fail_count, reverse=True): a stable sort, so items with
\* equal fail_count keep the order they have in `items`.
RECURSIVE SortByFails(_)
SortByFails(items) ==
    IF items = <<>> THEN <<>>
    ELSE LET rest == SortByFails(Tail(items))
             x == Head(items)
             \* x goes before the first element of rest that it does not rank below
             pos == IF \E j \in DOMAIN rest : rest[j].v.fail_count <= x.v.fail_count
                    THEN CHOOSE j \in DOMAIN rest :
                           /\ rest[j].v.fail_count <= x.v.fail_count
                           /\ \A h \in 1..(j - 1) : rest[h].v.fail_count > x.v.fail_count
                    ELSE Len(rest) + 1
         IN  SubSeq(rest, 1, pos - 1) \o <<x>> \o SubSeq(rest, pos, Len(rest))

\* Mutant: the success rate is computed without the guard.
SuccessRateUnguarded(oks, checks) == Percent(oks, checks)

\* success_rate of the final summary.
SuccessRate(oks, checks) == IF checks # 0 THEN Percent(oks, checks) ELSE 0

\* ================================================================ state
VARIABLES
    pc,               \* where main() is
    f,                \* PROXY_FILE: whether it can be opened, its unread lines
    ITERATIONS,       \* the configured number of iterations
    proxy_list,       \* main's proxy_list
    i,                \* main's loop variable (0 before the first iteration)
    tasks,            \* every check_proxy task created so far
    results,          \* run_iteration's results, in completion order
    ridx,             \* position of `for result in results`
    oks, bads,        \* run_iteration's counters
    oks_percent, bads_percent,   \* the iteration summary
    total_oks, total_bads,
    all_ok_proxies,   \* dict proxy -> list of IPs
    bad_proxy_stats,  \* dict proxy -> fail_count, last_error, last_check
    now,              \* the clock datetime.now() reads
    never_ok,         \* main's never_ok dict
    written,          \* the result files written so far
    ok_with_ip_file, ok_file, bad_file,   \* their lines
    success_rate,
    h_success,        \* history: proxies a probe of which got an IP back
    h_fail,           \* history: failure outcomes produced, per proxy
    h_snap,           \* history: the aggregate state when the merge loop began
    h_merged,         \* history: results merged, per iteration
    h_cause           \* history: what the network did for each of results

vars == <<pc, f, ITERATIONS, proxy_list, i, tasks, results, ridx, oks, bads,
          oks_percent, bads_percent, total_oks, total_bads, all_ok_proxies,
          bad_proxy_stats, now, never_ok, written, ok_with_ip_file, ok_file,
          bad_file, success_rate, h_success, h_fail, h_snap, h_merged, h_cause>>

aggregate == <<all_ok_proxies, bad_proxy_stats>>
locals == <<results, ridx, oks, bads, oks_percent, bads_percent>>
outputs == <<never_ok, written, ok_with_ip_file, ok_file, bad_file, success_rate>>
history == <<h_success, h_fail, h_snap, h_merged, h_cause>>

\* Files of at most n lines.
RECURSIVE FilesUpTo(_)
FilesUpTo(n) ==
    IF n = 0 THEN {<<>>}
    ELSE LET shorter == FilesUpTo(n - 1)
         IN  shorter \cup { Append(ls, l) : ls \in { x \in shorter : Len(x) = n - 1 },
                                            l \in RawLines }

\* Mutant: blank lines are not skipped.
RECURSIVE ReadProxiesUnfiltered(_)
ReadProxiesUnfiltered(lines) ==
    IF lines = <<>> THEN <<>>
    ELSE <<strip(Head(lines))>> \o ReadProxiesUnfiltered(Tail(lines))

\* [line.strip() for line in f if line.strip()]
RECURSIVE ReadProxies(_)
ReadProxies(lines) ==
    IF lines = <<>> THEN <<>>
    ELSE IF strip(Head(lines)) # ""
         THEN <<strip(Head(lines))>> \o ReadProxies(Tail(lines))
         ELSE ReadProxies(Tail(lines))

NoSnap == [ok |-> <<>>, bad |-> <<>>, oks |-> 0, bads |-> 0]

Init ==
    /\ pc = "load"
    /\ ITERATIONS \in 0..MaxIterations
    /\ \E status \in {"missing", "unreadable", "ok"} :
       \E lines \in FilesUpTo(MaxLines) :
          /\ status # "ok" => lines = <<>>
          /\ Len(ReadProxies(lines)) * ITERATIONS <= MaxChecks
          /\ f = [status |-> status, lines |-> lines]
    /\ proxy_list = <<>>
    /\ i = 0
    /\ tasks = <<>>
    /\ results = <<>> /\ ridx = 1 /\ oks = 0 /\ bads = 0
    /\ oks_percent = 0 /\ bads_percent = 0
    /\ total_oks = 0 /\ total_bads = 0
    /\ all_ok_proxies = <<>>
    /\ bad_proxy_stats = <<>>
    /\ now = 1
    /\ never_ok = <<>>
    /\ written = {}
    /\ ok_with_ip_file = <<>> /\ ok_file = <<>> /\ bad_file = <<>>
    /\ success_rate = 0
    /\ h_success = {}
    /\ h_fail = [p \in Proxies |-> 0]
    /\ h_snap = NoSnap
    /\ h_merged = <<>>
    /\ h_cause = <<>>

\* ------------------------------------------------------------- main: load
\* open() raises FileNotFoundError: logged, main returns.
LoadMissing ==
    /\ pc = "load" /\ f.status = "missing"
    /\ pc' = "aborted"
    /\ UNCHANGED <<f, ITERATIONS, proxy_list, i, tasks, locals, total_oks,
                   total_bads, aggregate, now, outputs, history>>

\* open() raises another OSError: nothing catches it, main ends with it.
LoadUnreadable ==
    /\ pc = "load" /\ f.status = "unreadable"
    /\ pc' = "crashed"
    /\ UNCHANGED <<f, ITERATIONS, proxy_list, i, tasks, locals, total_oks,
                   total_bads, aggregate, now, outputs, history>>

\* Mutant: the list is not tested for emptiness.
LoadProxiesNoEmptyCheck ==
    /\ pc = "load" /\ f.status = "ok"
    /\ proxy_list' = ReadProxies(f.lines)
    /\ f' = [f EXCEPT !.lines = <<>>]
    /\ pc' = "loop"
    /\ UNCHANGED <<ITERATIONS, i, tasks, locals, total_oks, total_bads,
                   aggregate, now, outputs, history>>

\* The file is read; an empty list is logged and main returns.
LoadProxies ==
    /\ pc = "load" /\ f.status = "ok"
    /\ proxy_list' = ReadProxies(f.lines)
    /\ f' = [f EXCEPT !.lines = <<>>]
    /\ pc' = IF proxy_list' = <<>> THEN "aborted" ELSE "loop"
    /\ UNCHANGED <<ITERATIONS, i, tasks, locals, total_oks, total_bads,
                   aggregate, now, outputs, history>>

\* ------------------------------------------------- run_iteration: launch
\* `for i in range(1, ITERATIONS + 1)` takes its next value and
\* run_iteration creates one check_proxy task per entry of proxy_list.
StartIteration ==
    /\ pc = "loop" /\ i < ITERATIONS
    /\ i' = i + 1
    /\ tasks' = tasks \o [j \in 1..Len(proxy_list) |->
                            [proxy |-> proxy_list[j], it |-> i + 1, state |-> "pending"]]
    /\ results' = <<>> /\ ridx' = 1 /\ oks' = 0 /\ bads' = 0
    /\ h_merged' = Append(h_merged, 0)
    /\ h_cause' = <<>>
    /\ pc' = IF AllCollected(results', Len(proxy_list)) THEN "merge" ELSE "collect"
    /\ h_snap' = [ok |-> all_ok_proxies, bad |-> bad_proxy_stats, oks |-> 0, bads |-> 0]
    /\ UNCHANGED <<f, ITERATIONS, proxy_list, oks_percent, bads_percent, total_oks,
                   total_bads, aggregate, now, outputs, h_success, h_fail>>

\* A probe got an IP back: the request completed with a JSON object that
\* has the field.
SuccessEvent(ev) == ev.kind = "response" /\ ev.body.type = "dict" /\ ev.body.has_ip

\* One task finishes and `await coro` of the as_completed loop receives its
\* result, or the exception that left check_proxy; that exception leaves
\* run_iteration and main, and asyncio.run cancels the tasks still pending.
ProbeFinish(idx, ev) ==
    /\ pc = "collect"
    /\ tasks[idx].it = i /\ tasks[idx].state = "pending"
    /\ now' = now + 1
    /\ LET out == check_proxy(tasks[idx].proxy, ev)
       IN  IF out.raised
           THEN /\ tasks' = [j \in DOMAIN tasks |->
                               IF j = idx THEN [tasks[j] EXCEPT !.state = "raised"]
                               ELSE IF tasks[j].state = "pending"
                                    THEN [tasks[j] EXCEPT !.state = "cancelled"]
                                    ELSE tasks[j]]
                /\ pc' = "crashed"
                /\ UNCHANGED <<results, h_success, h_fail, h_cause>>
           ELSE /\ tasks' = [tasks EXCEPT ![idx].state = "done"]
                /\ results' = Append(results, out.result)
                /\ h_cause' = Append(h_cause, IF ev.kind = "response"
                                               THEN "response" ELSE ev.exc.cls)
                /\ pc' = IF AllCollected(results', Len(proxy_list))
                         THEN "merge" ELSE "collect"
                /\ h_success' = IF SuccessEvent(ev)
                                THEN h_success \cup {tasks[idx].proxy} ELSE h_success
                /\ h_fail' = IF SuccessEvent(ev) THEN h_fail
                             ELSE [h_fail EXCEPT ![tasks[idx].proxy] = @ + 1]
    /\ UNCHANGED <<f, ITERATIONS, proxy_list, i, ridx, oks, bads, oks_percent,
                   bads_percent, total_oks, total_bads, aggregate, outputs,
                   h_snap, h_merged>>

\* -------------------------------------------------- run_iteration: merge
\* One pass of `for result in results`.
MergeStep ==
    /\ pc = "merge" /\ ridx <= Len(results)
    /\ LET a == MergeResult([ok |-> all_ok_proxies, bad |-> bad_proxy_stats,
                             oks |-> oks, bads |-> bads], results[ridx], now)
       IN  /\ all_ok_proxies' = a.ok
           /\ bad_proxy_stats' = a.bad
           /\ oks' = a.oks
           /\ bads' = a.bads
    /\ ridx' = ridx + 1
    /\ h_merged' = [h_merged EXCEPT ![i] = @ + 1]
    /\ UNCHANGED <<pc, f, ITERATIONS, proxy_list, i, tasks, results, oks_percent,
                   bads_percent, total_oks, total_bads, now, outputs, h_success,
                   h_fail, h_snap, h_cause>>

\* The loop is over: the percentages of the iteration summary are computed
\* (a division by len(proxy_list)) and logged.
IterationSummary ==
    /\ pc = "merge" /\ ridx > Len(results)
    /\ IF Len(proxy_list) = 0
       THEN /\ pc' = "crashed"
            /\ UNCHANGED <<oks_percent, bads_percent>>
       ELSE /\ oks_percent' = Percent(oks, Len(proxy_list))
            /\ bads_percent' = Percent(bads, Len(proxy_list))
            /\ pc' = "return"
    /\ UNCHANGED <<f, ITERATIONS, proxy_list, i, tasks, results, ridx, oks, bads,
                   total_oks, total_bads, aggregate, now, outputs, history>>

\* Mutant: main assigns the counts of the iteration to its totals.
ReturnAssign ==
    /\ pc = "return"
    /\ total_oks' = oks
    /\ total_bads' = bads
    /\ results' = <<>> /\ ridx' = 1 /\ oks' = 0 /\ bads' = 0
    /\ oks_percent' = 0 /\ bads_percent' = 0
    /\ h_snap' = NoSnap
    /\ h_cause' = <<>>
    /\ pc' = "loop"
    /\ UNCHANGED <<f, ITERATIONS, proxy_list, i, tasks, aggregate, now, outputs,
                   h_success, h_fail, h_merged>>

\* run_iteration returns (oks, bads); main adds them to its totals.
Return ==
    /\ pc = "return"
    /\ total_oks' = total_oks + oks
    /\ total_bads' = total_bads + bads
    /\ results' = <<>> /\ ridx' = 1 /\ oks' = 0 /\ bads' = 0
    /\ oks_percent' = 0 /\ bads_percent' = 0
    /\ h_snap' = NoSnap
    /\ h_cause' = <<>>
    /\ pc' = "loop"
    /\ UNCHANGED <<f, ITERATIONS, proxy_list, i, tasks, aggregate, now, outputs,
                   h_success, h_fail, h_merged>>

\* ---------------------------------------------------------- main: output
\* After the last iteration: the two OK files, never_ok and the BAD file,
\* and the final summary.
WriteResults ==
    /\ pc = "loop" /\ ~(i < ITERATIONS)
    /\ ok_with_ip_file' =
         LET ks == SortedKeys(Keys(all_ok_proxies))
         IN  [j \in DOMAIN ks |-> [proxy |-> ks[j], ips |-> Get(all_ok_proxies, ks[j])]]
    /\ ok_file' = SortedKeys(Keys(all_ok_proxies))
    /\ never_ok' = NeverOk(bad_proxy_stats, all_ok_proxies)
    /\ bad_file' = SortByFails(never_ok')
    /\ written' = {"ok_proxies_with_ip.txt", "ok_proxies.txt", "bad_proxies.txt"}
    /\ success_rate' = SuccessRate(total_oks, total_oks + total_bads)
    /\ pc' = IF success_rate' = ZeroDivisionError THEN "crashed" ELSE "done"
    /\ UNCHANGED <<f, ITERATIONS, proxy_list, i, tasks, locals, total_oks,
                   total_bads, aggregate, now, history>>

Next ==
    \/ LoadMissing
    \/ LoadUnreadable
    \/ LoadProxies
    \/ StartIteration
    \/ \E idx \in DOMAIN tasks : \E ev \in NetEvents : ProbeFinish(idx, ev)
    \/ MergeStep
    \/ IterationSummary
    \/ Return
    \/ WriteResults

Spec == Init /\ [][Next]_vars

\* The event loop keeps running whatever can run: main is resumed whenever it
\* can take a step, and every request ends, by its timeout at the latest.
\* Termination is checked over the files of at most MaxFairLines lines.
FairInit == Init /\ Len(f.lines) <= MaxFairLines
FairSpec == FairInit /\ [][Next]_vars /\ WF_vars(Next)

\* =============================================================== claims
ProxySet == { proxy_list[j] : j \in DOMAIN proxy_list }
MergeDone == pc = "merge" /\ ridx > Len(results)
IsFailure(result) == ~(result.status /\ result.message.type = "dict" /\ result.message.has_ip)

\* C1: after a complete run, a proxy that produced at least one success
\* outcome is not a key of never_ok (nor a line of the BAD file), however
\* many failures it also produced.
C1_SucceededNeverInNeverOk ==
    pc = "done" =>
        \A p \in h_success :
            /\ ~Has(never_ok, p)
            /\ \A j \in DOMAIN bad_file : bad_file[j].k # p

\* Witness of C1: a finished run in which a proxy both succeeded and failed.
C1_Witness ==
    /\ pc = "done"
    /\ \E p \in h_success :
          /\ h_fail[p] >= 1
          /\ Has(bad_proxy_stats, p)
          /\ ~Has(never_ok, p)

\* C2: at the end of every iteration, fail_count of every proxy is the number
\* of failure outcomes produced for it so far, and a proxy has a failure
\* record exactly when that number is not zero.
C2_FailCountExact ==
    pc \in {"return", "loop", "done"} =>
        \A p \in Proxies :
            /\ Has(bad_proxy_stats, p) <=> h_fail[p] > 0
            /\ Has(bad_proxy_stats, p) => Get(bad_proxy_stats, p).fail_count = h_fail[p]

\* Witness of C2: the second iteration ends with a proxy that failed at least
\* twice, and another one (or the same) that has no failure at all.
C2_Witness ==
    /\ pc = "return" /\ i = 2
    /\ \E p \in Proxies : Has(bad_proxy_stats, p) /\ Get(bad_proxy_stats, p).fail_count >= 2
    /\ total_oks + oks >= 1

\* What an order of merging may or may not change.
Permuted(rs, perm) == [j \in DOMAIN rs |-> rs[perm[j]]]
IpSets(ok) == [p \in Keys(ok) |-> { Get(ok, p)[j] : j \in DOMAIN Get(ok, p) }]
FailCounts(bad) == [p \in Keys(bad) |-> Get(bad, p).fail_count]
LastErrors(bad) == [p \in Keys(bad) |-> Get(bad, p).last_error]

\* C3 as stated: merging the results of an iteration in any other order
\* gives the same success records and the same failure records, last_error
\* included.
C3_MergeCommutative ==
    MergeDone =>
        \A perm \in Permutations(DOMAIN results) :
            LET m == MergeAll(h_snap, Permuted(results, perm), now)
            IN  /\ IpSets(m.ok) = IpSets(all_ok_proxies)
                /\ FailCounts(m.bad) = FailCounts(bad_proxy_stats)
                /\ LastErrors(m.bad) = LastErrors(bad_proxy_stats)

\* C3 amended: merging the results of an iteration in any other order gives
\* the same proxies with the same sets of IPs, the same failure records'
\* keys and fail_counts and the same counters; last_error is left out.
C3_MergeCommutativeUpToLastError ==
    MergeDone =>
        \A perm \in Permutations(DOMAIN results) :
            LET m == MergeAll(h_snap, Permuted(results, perm), now)
            IN  /\ IpSets(m.ok) = IpSets(all_ok_proxies)
                /\ FailCounts(m.bad) = FailCounts(bad_proxy_stats)
                /\ m.oks = oks /\ m.bads = bads

\* Witness of C3: an iteration merged two failures of one proxy with
\* different error details, and two successes of one proxy with different IPs
\* were merged (in this or an earlier iteration).
C3_Witness ==
    /\ MergeDone
    /\ \E a, b \in DOMAIN results :
          /\ a # b
          /\ results[a].proxy = results[b].proxy
          /\ IsFailure(results[a]) /\ IsFailure(results[b])
          /\ results[a].message.repr # results[b].message.repr
    /\ \E p \in Keys(all_ok_proxies) : Len(Get(all_ok_proxies, p)) = 2

\* C4 as stated: no exception leaves check_proxy, so no task ends with one
\* and the run is never ended by a probe.
C4_NoExceptionEscapes ==
    /\ \A j \in DOMAIN tasks : tasks[j].state \notin {"raised", "cancelled"}
    /\ pc = "crashed" => f.status = "unreadable"

\* C5: run_iteration launches one probe per entry of proxy_list, and its
\* as_completed loop ends only when every one of them has produced an
\* outcome: the results collected are as many as the list has entries.
C5_AllProbesCollected ==
    /\ pc \in {"collect", "merge", "return"} =>
          LET mine == SelectSeq(tasks, LAMBDA t : t.it = i)
          IN  /\ Len(mine) = Len(proxy_list)
              /\ \A j \in DOMAIN mine : mine[j].proxy = proxy_list[j]
    /\ pc \in {"merge", "return"} =>
          /\ Len(results) = Len(proxy_list)
          /\ \A j \in DOMAIN tasks : tasks[j].it = i => tasks[j].state = "done"

\* Witness of C5: the loop ended with several results, the first of them a
\* failure.
C5_Witness ==
    /\ pc = "merge"
    /\ Len(results) >= 2
    /\ IsFailure(results[1])
    /\ \E j \in DOMAIN results : ~IsFailure(results[j])

\* C6: iterations do not overlap.  A pending probe belongs to the current
\* iteration; once iteration i has probes, every earlier iteration has merged
\* one outcome per list entry; and every iteration probed the same list.
C6_IterationsSequential ==
    /\ \A j \in DOMAIN tasks : tasks[j].state = "pending" => tasks[j].it = i
    /\ \A k \in 1..i :
          LET probes == SelectSeq(tasks, LAMBDA t : t.it = k)
          IN  /\ [j \in DOMAIN probes |-> probes[j].proxy] = proxy_list
              /\ k < i => /\ h_merged[k] = Len(proxy_list)
                          /\ \A j \in DOMAIN probes : probes[j].state = "done"

\* Witness of C6: the second iteration is under way, one of its probes done
\* and one still pending.
C6_Witness ==
    /\ i = 2 /\ pc = "collect"
    /\ \E a, b \in DOMAIN tasks :
          /\ tasks[a].it = 2 /\ tasks[a].state = "pending"
          /\ tasks[b].it = 2 /\ tasks[b].state = "done"

\* C7: after a run of at least one iteration the keys of all_ok_proxies and
\* of never_ok are input proxies, no proxy is a key of both, and every input
\* proxy is a key of one of them.
C7_Partition ==
    (pc = "done" /\ ITERATIONS >= 1) =>
        /\ Keys(all_ok_proxies) \subseteq ProxySet
        /\ Keys(never_ok) \subseteq ProxySet
        /\ Keys(all_ok_proxies) \cap Keys(never_ok) = {}
        /\ \A p \in ProxySet : p \in Keys(all_ok_proxies) \cup Keys(never_ok)

\* Witness of C7: a finished run with a working and a never-working proxy.
C7_Witness ==
    /\ pc = "done" /\ ITERATIONS >= 1
    /\ Keys(all_ok_proxies) # {}
    /\ Keys(never_ok) # {}

\* C8 as stated: the BAD file is in order of fail_count descending, and
\* proxies with equal fail_count are in natural proxy-string order.
C8_TiesInProxyOrder ==
    pc = "done" =>
        \A a, b \in DOMAIN bad_file :
            a < b =>
                \/ bad_file[a].v.fail_count > bad_file[b].v.fail_count
                \/ /\ bad_file[a].v.fail_count = bad_file[b].v.fail_count
                   /\ ProxyRank(bad_file[a].k) < ProxyRank(bad_file[b].k)

\* Position of a key in a dict's insertion order.
Position(d, key) == CHOOSE j \in DOMAIN d : d[j].k = key

\* C8 amended: the BAD file holds the never-working proxies in order of
\* fail_count descending, and proxies with equal fail_count are in the order
\* in which their failure records were created.
C8_TiesInCreationOrder ==
    pc = "done" =>
        /\ { bad_file[j] : j \in DOMAIN bad_file } = { never_ok[j] : j \in DOMAIN never_ok }
        /\ Len(bad_file) = Len(never_ok)
        /\ \A a, b \in DOMAIN bad_file :
              a < b =>
                \/ bad_file[a].v.fail_count > bad_file[b].v.fail_count
                \/ /\ bad_file[a].v.fail_count = bad_file[b].v.fail_count
                   /\ Position(bad_proxy_stats, bad_file[a].k)
                        < Position(bad_proxy_stats, bad_file[b].k)

\* Witness of C8: two never-working proxies with the same fail_count are
\* written against their natural order, after a sort that had to move one.
C8_Witness ==
    /\ pc = "done"
    /\ Len(bad_file) = 2
    /\ bad_file[1].v.fail_count = bad_file[2].v.fail_count
    /\ ProxyRank(bad_file[1].k) > ProxyRank(bad_file[2].k)

\* C9: every entry of the list, duplicates included, is counted in oks/bads,
\* and no proxy's IP list holds an IP twice.
C9_NoDuplicateIPs ==
    /\ \A p \in Keys(all_ok_proxies) :
          LET ips == Get(all_ok_proxies, p)
          IN  \A a, b \in DOMAIN ips : a # b => ips[a] # ips[b]
    /\ pc = "merge" =>
          /\ oks = Cardinality({ j \in 1..(ridx - 1) : ~IsFailure(results[j]) })
          /\ bads = Cardinality({ j \in 1..(ridx - 1) : IsFailure(results[j]) })

\* Witness of C9: one proxy was probed twice in an iteration, both probes
\* got the same IP, both were counted and its list holds one IP.
C9_Witness ==
    /\ MergeDone
    /\ \E a, b \in DOMAIN results :
          /\ a # b
          /\ results[a].proxy = results[b].proxy
          /\ ~IsFailure(results[a]) /\ ~IsFailure(results[b])
          /\ results[a].message.ip = results[b].message.ip
          /\ Len(Get(all_ok_proxies, results[a].proxy)) = 1
    /\ oks >= 2

\* A completed request whose JSON object has no "ip" field.
NoIpResult(result) ==
    result.status /\ result.message.type = "dict" /\ ~result.message.has_ip

\* C10: merging a result whose JSON object lacks the "ip" field increments
\* bads and the proxy's fail_count, leaves the success records alone and
\* sets last_error to the text of the parsed body.
C10_NoIpIsFailure ==
    [][ (pc = "merge" /\ ridx <= Len(results) /\ NoIpResult(results[ridx])) =>
          LET p == results[ridx].proxy
              before == IF Has(bad_proxy_stats, p)
                        THEN Get(bad_proxy_stats, p).fail_count ELSE 0
          IN  /\ bads' = bads + 1
              /\ oks' = oks
              /\ all_ok_proxies' = all_ok_proxies
              /\ Has(bad_proxy_stats', p)
              /\ Get(bad_proxy_stats', p).fail_count = before + 1
              /\ Get(bad_proxy_stats', p).last_error.type = "str"
              /\ Get(bad_proxy_stats', p).last_error.repr = results[ridx].message.repr
    ]_vars

\* Witness of C10: such a result has just been merged for a proxy that has no
\* success record.
C10_Witness ==
    /\ pc = "merge" /\ ridx > 1
    /\ NoIpResult(results[ridx - 1])
    /\ ~Has(all_ok_proxies, results[ridx - 1].proxy)
    /\ Get(bad_proxy_stats, results[ridx - 1].proxy).last_error.repr = "{'error': 'denied'}"

\* C11: probes are launched and result files written only after a readable
\* file gave a list of non-blank entries; main returns early only for a
\* missing file or an empty list, and a run whose probes all produced failure
\* outcomes is never cut short: it ends with every iteration run and the
\* three files written.
C11_AbortOnlyOnLoadError ==
    /\ \A j \in DOMAIN proxy_list : proxy_list[j] # ""
    /\ (tasks # <<>> \/ written # {}) => (f.status = "ok" /\ proxy_list # <<>>)
    /\ pc = "aborted" =>
          /\ f.status = "missing" \/ (f.status = "ok" /\ proxy_list = <<>>)
          /\ tasks = <<>> /\ written = {}
    /\ (pc = "crashed" /\ f.status = "unreadable") => (tasks = <<>> /\ written = {})
    /\ (pc = "crashed" /\ f.status # "unreadable") =>
          \E j \in DOMAIN tasks : tasks[j].state = "raised"
    /\ pc = "done" =>
          /\ i = ITERATIONS
          /\ written = {"ok_proxies_with_ip.txt", "ok_proxies.txt", "bad_proxies.txt"}

\* Witness of C11: a run of two iterations in which every probe failed has
\* ended with its files written and every proxy in the BAD file.
C11_Witness ==
    /\ pc = "done" /\ ITERATIONS = 2
    /\ total_oks = 0 /\ total_bads = 2 * Len(proxy_list)
    /\ written # {}
    /\ Len(bad_file) >= 1

\* C12: with no check made at all, the final summary is produced and its
\* success rate is 0.
C12_ZeroChecksRateZero ==
    (pc \in {"done", "crashed"} /\ tasks = <<>> /\ f.status = "ok") =>
        /\ pc = "done"
        /\ total_oks + total_bads = 0
        /\ success_rate = 0

\* Witness of C12: a run over a non-empty list with no iteration has ended.
C12_Witness ==
    /\ pc = "done"
    /\ proxy_list # <<>>
    /\ total_oks + total_bads = 0
    /\ success_rate = 0

\* C13 as stated: once the result of a probe that timed out is merged, the
\* proxy's last_error is not the empty text a new record starts with, and it
\* is no detail a failure of another kind gives.
C13_TimeoutDetailSpecific ==
    (pc = "merge" /\ ridx > 1 /\ h_cause[ridx - 1] = "TimeoutError") =>
        LET le == Get(bad_proxy_stats, results[ridx - 1].proxy).last_error
        IN  /\ le # PyStr("")
            /\ \A ev \in NetEvents :
                  LET out == check_proxy(results[ridx - 1].proxy, ev)
                  IN  (~out.raised /\ IsFailure(out.result)
                         /\ ~(ev.kind = "raise" /\ ev.exc.cls = "TimeoutError"))
                        => Str(out.result.message) # le

\* The IPs recorded for a proxy.
IpsOf(ok, p) == { Get(ok, p)[j] : j \in DOMAIN Get(ok, p) }

\* C14: records only grow.  Over every step a key of all_ok_proxies stays a
\* key and keeps its IPs, a key of bad_proxy_stats stays a key and its
\* fail_count does not decrease.
C14_RecordsOnlyGrow ==
    [][ /\ \A p \in Keys(all_ok_proxies) :
              /\ Has(all_ok_proxies', p)
              /\ IpsOf(all_ok_proxies, p) \subseteq IpsOf(all_ok_proxies', p)
        /\ \A p \in Keys(bad_proxy_stats) :
              /\ Has(bad_proxy_stats', p)
              /\ Get(bad_proxy_stats', p).fail_count >= Get(bad_proxy_stats, p).fail_count
    ]_vars

\* Witness of C14: in a second iteration a proxy has two IPs and a failure
\* record counts at least two failures.
C14_Witness ==
    /\ i = 2 /\ pc = "merge"
    /\ \E p \in Keys(all_ok_proxies) : Cardinality(IpsOf(all_ok_proxies, p)) = 2
    /\ \E p \in Keys(bad_proxy_stats) : Get(bad_proxy_stats, p).fail_count >= 2

\* The failures of proxy p among the results merged so far in this iteration.
MergedFailures(p) ==
    { j \in 1..(ridx - 1) : results[j].proxy = p /\ IsFailure(results[j]) }
Latest(js) == CHOOSE j \in js : \A h \in js : h <= j

\* C15: during and after the merge loop, last_error of a proxy is the text of
\* the message of the failure merged last for it; a proxy without a failure
\* in this iteration keeps the record the earlier iterations left.
C15_LastErrorIsLatest ==
    pc \in {"merge", "return"} =>
        \A p \in Proxies :
            IF MergedFailures(p) = {}
            THEN /\ Has(bad_proxy_stats, p) <=> Has(h_snap.bad, p)
                 /\ Has(bad_proxy_stats, p) =>
                       Get(bad_proxy_stats, p) = Get(h_snap.bad, p)
            ELSE /\ Has(bad_proxy_stats, p)
                 /\ Get(bad_proxy_stats, p).last_error.type = "str"
                 /\ Get(bad_proxy_stats, p).last_error.repr
                      = results[Latest(MergedFailures(p))].message.repr

\* Witness of C15: in the second iteration a failure has just been merged for
\* a proxy whose record held another detail from the first iteration.
C15_Witness ==
    /\ i = 2 /\ pc = "merge" /\ ridx > 1
    /\ IsFailure(results[ridx - 1])
    /\ Has(h_snap.bad, results[ridx - 1].proxy)
    /\ Get(h_snap.bad, results[ridx - 1].proxy).last_error
         # Get(bad_proxy_stats, results[ridx - 1].proxy).last_error

\* The record of proxy q in a dict, or nothing.
RecordOf(d, q) == IF Has(d, q) THEN <<Get(d, q)>> ELSE <<>>

\* C16: merging a result of proxy p changes no record of another proxy; a
\* success leaves bad_proxy_stats as it is and a failure leaves
\* all_ok_proxies as it is.
C16_MergeFrame ==
    [][ (pc = "merge" /\ ridx <= Len(results)) =>
          /\ \A q \in Proxies \ {results[ridx].proxy} :
                /\ RecordOf(all_ok_proxies', q) = RecordOf(all_ok_proxies, q)
                /\ RecordOf(bad_proxy_stats', q) = RecordOf(bad_proxy_stats, q)
          /\ IsFailure(results[ridx]) => all_ok_proxies' = all_ok_proxies
          /\ ~IsFailure(results[ridx]) => bad_proxy_stats' = bad_proxy_stats
    ]_vars

\* Witness of C16: a success has just been merged for a proxy that has a
\* failure record, while another proxy has records of both kinds.
C16_Witness ==
    /\ pc = "merge" /\ ridx > 1
    /\ ~IsFailure(results[ridx - 1])
    /\ Has(bad_proxy_stats, results[ridx - 1].proxy)
    /\ \E q \in Proxies \ {results[ridx - 1].proxy} :
          Has(all_ok_proxies, q) /\ Has(bad_proxy_stats, q)

\* C17: the aggregate maps change only in a step of the merge loop, taken
\* when no probe is pending; and from inside the loop the only step is the
\* next pass of the loop, which leaves the tasks and the results alone.
C17_MergeNotConcurrent ==
    [][ /\ aggregate' # aggregate =>
              /\ pc = "merge" /\ pc' = "merge"
              /\ \A j \in DOMAIN tasks : tasks[j].state # "pending"
        /\ (pc = "merge" /\ ridx <= Len(results)) =>
              /\ pc' = "merge" /\ ridx' = ridx + 1
              /\ tasks' = tasks /\ results' = results
              /\ \A j \in DOMAIN tasks : tasks[j].state # "pending"
    ]_vars

\* Witness of C17: the loop is between two merges, the first of which
\* changed a map, in an iteration of several probes.
C17_Witness ==
    /\ pc = "merge" /\ ridx = 2 /\ Len(results) >= 2
    /\ <<all_ok_proxies, bad_proxy_stats>> # <<h_snap.ok, h_snap.bad>>
    /\ \A j \in DOMAIN tasks : tasks[j].state = "done"

\* Every probe created so far ended with a returned outcome or is pending.
NoProbeRaised == \A j \in DOMAIN tasks : tasks[j].state \in {"pending", "done"}

\* The run is over with i at ITERATIONS, one merged outcome per list entry in
\* each of the iterations 1..ITERATIONS, and the result files written.
RunComplete ==
    /\ pc = "done"
    /\ i = ITERATIONS
    /\ h_merged = [k \in 1..ITERATIONS |-> Len(proxy_list)]
    /\ written # {}

\* C18: the loop variable moves by single steps from 0 to ITERATIONS, the
\* files are written only after the last iteration, and a run over a
\* non-empty list whose probes all produce outcomes ends that way.
C18_RunTerminates ==
    /\ [](/\ i <= ITERATIONS
          /\ Len(h_merged) = i
          /\ written # {} => (i = ITERATIONS /\ pc \in {"done", "crashed"}))
    /\ [][i' = i \/ (i' = i + 1 /\ pc = "loop")]_vars
    /\ (pc = "loop" /\ i = 0) ~> (RunComplete \/ ~NoProbeRaised)

\* Witness of C18: a run of two iterations over several proxies is complete.
C18_Witness ==
    /\ RunComplete
    /\ ITERATIONS = 2
    /\ Len(proxy_list) >= 2
    /\ NoProbeRaised

\* The sum of fail_count over the items of bad_proxy_stats.
RECURSIVE SumFails(_)
SumFails(bad) ==
    IF bad = <<>> THEN 0 ELSE Head(bad).v.fail_count + SumFails(Tail(bad))

\* C19: counts are conserved.  run_iteration returns oks + bads =
\* len(proxy_list); between iterations and at the end the totals add up to
\* i * len(proxy_list) and total_bads is the sum of the fail_counts.
C19_CountsConserved ==
    /\ pc = "return" => oks + bads = Len(proxy_list)
    /\ pc \in {"loop", "done"} =>
          /\ total_oks + total_bads = i * Len(proxy_list)
          /\ total_bads = SumFails(bad_proxy_stats)

\* Witness of C19: two iterations are over, with successes and with failures
\* spread over two failure records.
C19_Witness ==
    /\ pc = "loop" /\ i = 2
    /\ total_oks >= 1
    /\ Len(bad_proxy_stats) = 2
    /\ total_bads >= 3

====
